---- MODULE Spec2Model ----
(***************************************************************************)
(* Model of the ultralytics/mkdocs plugin: the author identity resolver    *)
(* and its shared cache (plugin/utils.py), the batch orchestrator          *)
(* (plugin/postprocess.py) and the HTML enrichment (plugin/processor.py).  *)
(*                                                                         *)
(* Python strings are sequences of tokens, so that split, strip, endswith  *)
(* and f-string formatting are computed rather than assumed.               *)
(***************************************************************************)
EXTENDS Integers, Sequences, FiniteSets, TLC

\* ------------------------------------------------------------------ bounds
NumThreads == 2
MaxCalls == 2
MaxLookups == 2
MaxEmails == 2
MaxChanges == 2

\* ----------------------------------------------------------- Python values
None == <<"<None>">>
Truthy(s) == s # None /\ s # << >>
PyOr(a, b) == IF Truthy(a) THEN a ELSE b

RECURSIVE LStrip(_)
LStrip(s) == IF s # << >> /\ Head(s) = " " THEN LStrip(Tail(s)) ELSE s

RECURSIVE RStrip(_)
RStrip(s) == IF s # << >> /\ s[Len(s)] = " " THEN RStrip(SubSeq(s, 1, Len(s) - 1)) ELSE s

Strip(s) == RStrip(LStrip(s))

EndsWith(s, suf) ==
    /\ Len(s) >= Len(suf)
    /\ SubSeq(s, Len(s) - Len(suf) + 1, Len(s)) = suf

\* s.split(sep)[-1]: what follows the last occurrence of sep (all of s if none)
SplitLast(s, sep) ==
    LET idx == {i \in 1..Len(s) : s[i] = sep}
    IN  IF idx = {} THEN s
        ELSE SubSeq(s, (CHOOSE i \in idx : \A j \in idx : j <= i) + 1, Len(s))

\* s.split(sep)[0]: what precedes the first occurrence of sep (all of s if none)
SplitFirst(s, sep) ==
    LET idx == {i \in 1..Len(s) : s[i] = sep}
    IN  IF idx = {} THEN s
        ELSE SubSeq(s, 1, (CHOOSE i \in idx : \A j \in idx : i <= j) - 1)

\* ------------------------------------------------ the emails of the model
EmptyEmail == << >>
BlankEmail == <<" ">>
NoreplyEmail == <<"1", "+", "bob", "@", "users.noreply.github.com">>
BobEmail == <<"bob", "@", "example.com">>
ZedEmail == <<"zed", "@", "example.com">>

Emails == {EmptyEmail, BlankEmail, NoreplyEmail, BobEmail, ZedEmail}

\* The accounts the remote user directory knows (an external collaborator):
\* the login and avatar_url of the first search hit for an email.
GitHubLogin(email) == IF email = BobEmail THEN <<"bob">> ELSE None
GitHubAvatarUrl(login) == <<"https://avatars.githubusercontent.com/u/">> \o login

\* requests.head(url, allow_redirects=True).url: github.com/<user>.png is
\* redirected to the avatar CDN, a CDN url is served as it is (utils.py:16
\* resolves the default avatar through the same redirect).
Redirected(url) ==
    IF Len(url) = 3 /\ url[1] = "https://github.com/" /\ url[3] = ".png"
    THEN <<"https://avatars.githubusercontent.com/u/", url[2]>>
    ELSE url

\* utils.py:16
DEFAULT_AVATAR == Redirected(<<"https://github.com/", "github", ".png">>)


\* =================================================================== state
VARIABLES
    \* --- plugin/utils.py: the author identity resolver
    AUTHOR_CACHE,   \* utils.py:19  "None", or "dict" once the module global is bound
    cache,          \* the dict _AUTHOR_CACHE is bound to: email -> [username, avatar]
    CACHE_LOCK,     \* utils.py:20  0 when free, else the thread holding it
    cacheFile,      \* mkdocs_github_authors.yaml: [is_file, data]
    diskWrites,     \* whole-file overwrites of the cache file so far
    searchReqs,     \* user-search requests issued so far, per email
    results,        \* the (username, avatar) pairs get_github_username_from_email returned, per email
    th,             \* per thread: position and locals of the call it executes
    active,         \* the threads that run
    calls,          \* top-level calls started so far
    lookups,        \* emails handed to the resolver so far
    raises          \* calls that ended in an exception so far

cacheVars == <<AUTHOR_CACHE, cache, CACHE_LOCK, cacheFile, diskWrites, searchReqs, results, th, active, calls, lookups, raises>>

VARIABLES
    cfg,            \* the arguments and environment of one postprocess_site run
    disk,           \* the HTML files under site_dir, each with its fault
    s_pc,           \* the coordinator's position in postprocess_site
    html_files,     \* postprocess.py:277
    md_index,       \* postprocess.py:285  the HTML files that have a markdown source
    fut,            \* per file: the state of its task (its future, in the pool modes)
    content,        \* per file: what the file on disk holds
    attempts,       \* per file: how many times process_html_file ran on it
    processed,      \* postprocess.py:294
    summary,        \* the line printed at postprocess.py:365, as <<processed, total>>
    log,            \* the coordinator's completed steps, in order
    wCache,         \* per pool worker process: its own _AUTHOR_CACHE module global
    workerOpens,    \* cache-file opens made while processing a file in a pool worker
    workerLookups,  \* remote identity lookups made while processing a file in a pool worker
    workerWrites    \* cache-file rewrites made while processing a file in a pool worker

siteVars == <<cfg, disk, s_pc, html_files, md_index, fut, content, attempts, processed,
              summary, log, wCache, workerOpens, workerLookups, workerWrites>>

\* ---- plugin/processor.py: a page taken through process_html
VARIABLES
    page,       \* the page as it was before the first pass
    args,       \* the arguments of process_html, the same for every pass
    html,       \* the current document
    outputs     \* history: the document returned by each pass so far

htmlVars == <<page, args, html, outputs>>

\* ---- plugin/processor.py: one call of get_git_info
VARIABLES
    g_args,     \* what the call meets: the git outcome, add_authors, the authors found
    g_ret,      \* the record returned
    g_returned  \* whether the call has been made

gitVars == <<g_args, g_ret, g_returned>>

\* ---- plugin/utils.py: one call of calculate_time_difference
VARIABLES
    age,        \* how long before now the date lies: whole days and hours
    difference, \* the first element of the pair returned
    t_returned  \* whether the call has been made

timeVars == <<age, difference, t_returned>>

\* ---- plugin/processor.py: one call of parse_faq
VARIABLES
    siblings,     \* the elements at the level of the FAQ heading, in document order
    faqs,         \* the list returned (each entry with the position of its question)
    faq_returned  \* whether the call has been made

faqVars == <<siblings, faqs, faq_returned>>

\* ---- plugin/main.py: one call of MetaPlugin.insert_content
VARIABLES
    p_doc,      \* the document
    p_content,  \* what is inserted, and how the library treats it
    p_pc        \* where the call stands

pluginVars == <<p_doc, p_content, p_pc>>

\* What an action of one component leaves alone.
outsideCache == <<siteVars, htmlVars, gitVars, timeVars, faqVars, pluginVars>>
outsideSite == <<cache, CACHE_LOCK, diskWrites, searchReqs, results, th, active, calls, lookups, raises,
                 htmlVars, gitVars, timeVars, faqVars, pluginVars>>
outsideHtml == <<cacheVars, siteVars, gitVars, timeVars, faqVars, pluginVars>>
outsideGit == <<cacheVars, siteVars, htmlVars, timeVars, faqVars, pluginVars>>
outsideTime == <<cacheVars, siteVars, htmlVars, gitVars, faqVars, pluginVars>>
outsideFaq == <<cacheVars, siteVars, htmlVars, gitVars, timeVars, pluginVars>>
outsidePlugin == <<cacheVars, siteVars, htmlVars, gitVars, timeVars, faqVars>>

Threads == 1..NumThreads

\* ------------------------------------------------------------ dict helpers
EmptyDict == << >>
DictPut(d, k, v) == [x \in (DOMAIN d) \cup {k} |-> IF x = k THEN v ELSE d[x]]
Entry(username, avatar) == [username |-> username, avatar |-> avatar]
NegativeEntry == Entry(None, None)

\* info[key] = value on an insertion-ordered dict kept as a sequence of records
InfoPut(info, rec) ==
    IF \E i \in 1..Len(info) : info[i].key = rec.key
    THEN [i \in 1..Len(info) |-> IF info[i].key = rec.key THEN rec ELSE info[i]]
    ELSE Append(info, rec)

\* ------------------------------------------------------- thread-local state
IdleThread ==
    [pc |-> "idle", op |-> "none", email |-> << >>, response |-> "none",
     username |-> None, avatar |-> None,
     emails |-> << >>, default_user |-> None, changes |-> 0,
     was_cached |-> FALSE, cache_updated |-> FALSE, info |-> << >>,
     domAtEntry |-> {}, wrote |-> FALSE, outcome |-> "none", ret |-> <<None, None>>]

\* A return of get_github_username_from_email: to the caller's frame.
ReturnTo(f, r) ==
    IF f.op = "direct"
    THEN [f EXCEPT !.pc = "done", !.outcome = "returned", !.ret = r]
    ELSE [f EXCEPT !.pc = "f_after_call", !.username = r[1], !.avatar = r[2], !.ret = r]

\* An exception nobody catches: it leaves get_github_username_from_email and,
\* through utils.py:204, get_github_usernames_from_file.
Raised(f) == [f EXCEPT !.pc = "done", !.outcome = "raised"]

\* ------------------------------------------- get_github_username_from_email
\* utils.py:116-119
NoreplyUsername(email) == SplitFirst(SplitLast(email, "+"), "@")
NoreplyAvatar(username) == <<"https://github.com/">> \o username \o <<".png">>
IsNoreply(email) == EndsWith(email, <<"@", "users.noreply.github.com">>)

\* What the user-search endpoint can answer (utils.py:131-134): a hit only for a
\* known account, an empty result set, a non-200 status, or no answer at all
\* (requests raises).
SearchResponses(email) ==
    {"empty", "http_error", "raise"} \cup (IF GitHubLogin(email) # None THEN {"found"} ELSE {})

\* utils.py:108  with _CACHE_LOCK:
U_AcquireCheck(t) ==
    /\ th[t].pc = "u_acquire_check"
    /\ CACHE_LOCK = 0
    /\ CACHE_LOCK' = t
    /\ th' = [th EXCEPT ![t].pc = "u_check"]
    /\ UNCHANGED <<AUTHOR_CACHE, cache, cacheFile, diskWrites, searchReqs, results, active, calls, lookups, raises>>
    /\ UNCHANGED outsideCache

\* utils.py:109-119  the cache lookup under the lock, then the local tests
U_Check(t) ==
    LET f == th[t]
        e == f.email
        user == NoreplyUsername(e)
    IN
    /\ f.pc = "u_check"
    /\ CACHE_LOCK' = 0
    /\ IF e \in DOMAIN cache
       THEN LET r == <<cache[e].username, cache[e].avatar>>
            IN  /\ th' = [th EXCEPT ![t] = ReturnTo(f, r)]
                /\ results' = [results EXCEPT ![e] = @ \cup {r}]
       ELSE IF Strip(e) = << >>
       THEN /\ th' = [th EXCEPT ![t] = ReturnTo(f, <<None, None>>)]
            /\ results' = [results EXCEPT ![e] = @ \cup {<<None, None>>}]
       ELSE IF IsNoreply(e)
       THEN /\ th' = [th EXCEPT ![t] = [f EXCEPT !.pc = "u_acquire_noreply",
                                                 !.username = user,
                                                 !.avatar = NoreplyAvatar(user)]]
            /\ UNCHANGED results
       ELSE /\ th' = [th EXCEPT ![t].pc = "u_request"]
            /\ UNCHANGED results
    /\ UNCHANGED <<AUTHOR_CACHE, cache, cacheFile, diskWrites, searchReqs, active, calls, lookups, raises>>
    /\ UNCHANGED outsideCache

\* utils.py:120 and 137  with _CACHE_LOCK:
U_AcquirePut(t) ==
    /\ th[t].pc \in {"u_acquire_noreply", "u_acquire_found"}
    /\ CACHE_LOCK = 0
    /\ CACHE_LOCK' = t
    /\ th' = [th EXCEPT ![t].pc = "u_put"]
    /\ UNCHANGED <<AUTHOR_CACHE, cache, cacheFile, diskWrites, searchReqs, results, active, calls, lookups, raises>>
    /\ UNCHANGED outsideCache

\* utils.py:121-125 and 138-142  cache[email] = {username, avatar: requests.head(avatar).url}
\* and return username, avatar; the HEAD request is made inside the lock and may raise.
U_Put(t) ==
    LET f == th[t] IN
    /\ f.pc = "u_put"
    /\ CACHE_LOCK' = 0
    /\ \/ /\ cache' = DictPut(cache, f.email, Entry(f.username, Redirected(f.avatar)))
          /\ th' = [th EXCEPT ![t] = ReturnTo(f, <<f.username, f.avatar>>)]
          /\ results' = [results EXCEPT ![f.email] = @ \cup {<<f.username, f.avatar>>}]
          /\ UNCHANGED raises
       \/ /\ th' = [th EXCEPT ![t] = Raised(f)]
          /\ raises' = raises + 1
          /\ UNCHANGED <<cache, results>>
    /\ UNCHANGED <<AUTHOR_CACHE, cacheFile, diskWrites, searchReqs, active, calls, lookups>>
    /\ UNCHANGED outsideCache

\* utils.py:128-136  response = requests.get(url) and the tests on it
U_Request(t) ==
    LET f == th[t]
        login == GitHubLogin(f.email)
    IN
    /\ f.pc = "u_request"
    /\ searchReqs' = [searchReqs EXCEPT ![f.email] = @ + 1]
    /\ \E r \in SearchResponses(f.email) :
         /\ th' = [th EXCEPT ![t] =
                     CASE r = "raise" -> Raised(f)
                       [] r = "found" -> [f EXCEPT !.pc = "u_acquire_found", !.response = r,
                                                   !.username = login,
                                                   !.avatar = GitHubAvatarUrl(login)]
                       [] OTHER -> [f EXCEPT !.pc = "u_acquire_neg", !.response = r]]
         /\ raises' = IF r = "raise" THEN raises + 1 ELSE raises
    /\ UNCHANGED <<AUTHOR_CACHE, cache, CACHE_LOCK, cacheFile, diskWrites, results, active, calls, lookups>>
    /\ UNCHANGED outsideCache

\* utils.py:146  with _CACHE_LOCK:
U_AcquireNeg(t) ==
    /\ th[t].pc = "u_acquire_neg"
    /\ CACHE_LOCK = 0
    /\ CACHE_LOCK' = t
    /\ th' = [th EXCEPT ![t].pc = "u_neg_put"]
    /\ UNCHANGED <<AUTHOR_CACHE, cache, cacheFile, diskWrites, searchReqs, results, active, calls, lookups, raises>>
    /\ UNCHANGED outsideCache

\* utils.py:147-148  cache[email] = {"username": None, "avatar": None}; return None, None
U_NegPut(t) ==
    LET f == th[t] IN
    /\ f.pc = "u_neg_put"
    /\ CACHE_LOCK' = 0
    /\ cache' = DictPut(cache, f.email, NegativeEntry)
    /\ th' = [th EXCEPT ![t] = ReturnTo(f, <<None, None>>)]
    /\ results' = [results EXCEPT ![f.email] = @ \cup {<<None, None>>}]
    /\ UNCHANGED <<AUTHOR_CACHE, cacheFile, diskWrites, searchReqs, active, calls, lookups, raises>>
    /\ UNCHANGED outsideCache


\* ------------------------------------------- get_github_usernames_from_file
\* The emails argument: a dict of email -> change count, in insertion order.
InputDicts ==
    UNION {{d \in [1..n -> [email : Emails, changes : 1..MaxChanges]] :
               \A i, j \in 1..n : d[i].email = d[j].email => i = j} : n \in 0..MaxEmails}
DefaultUsers == {None, BobEmail}

\* utils.py:175-182  copy the emails; with none and a default_user, use it
StartFromFile(t) ==
    /\ t \in active
    /\ th[t].pc \in {"idle", "done"}
    /\ calls < MaxCalls
    /\ calls' = calls + 1
    /\ \E ems \in InputDicts, du \in DefaultUsers :
         LET emails == IF ems = << >> /\ Truthy(du)
                       THEN <<[email |-> du, changes |-> 1]>> ELSE ems
         IN  /\ lookups + Len(emails) <= MaxLookups
             /\ lookups' = lookups + Len(emails)
             /\ th' = [th EXCEPT ![t] =
                         [IdleThread EXCEPT !.pc = "f_acquire_load", !.op = "file",
                                            !.default_user = du, !.emails = emails]]
    /\ UNCHANGED <<AUTHOR_CACHE, cache, CACHE_LOCK, cacheFile, diskWrites, searchReqs, results, active, raises>>
    /\ UNCHANGED outsideCache

\* utils.py:187  with _CACHE_LOCK:
F_AcquireLoad(t) ==
    /\ th[t].pc = "f_acquire_load"
    /\ CACHE_LOCK = 0
    /\ CACHE_LOCK' = t
    /\ th' = [th EXCEPT ![t].pc = "f_load"]
    /\ UNCHANGED <<AUTHOR_CACHE, cache, cacheFile, diskWrites, searchReqs, results, active, calls, lookups, raises>>
    /\ UNCHANGED outsideCache

\* utils.py:188-194  load the cache file once per process; cache = _AUTHOR_CACHE
F_Load(t) ==
    LET loaded == IF AUTHOR_CACHE = "None"
                  THEN (IF cacheFile.is_file THEN cacheFile.data ELSE EmptyDict)
                  ELSE cache
    IN
    /\ th[t].pc = "f_load"
    /\ AUTHOR_CACHE' = "dict"
    /\ cache' = loaded
    /\ CACHE_LOCK' = 0
    /\ th' = [th EXCEPT ![t].pc = "f_loop", ![t].domAtEntry = DOMAIN loaded]
    /\ UNCHANGED <<cacheFile, diskWrites, searchReqs, results, active, calls, lookups, raises>>
    /\ UNCHANGED outsideCache

\* utils.py:200-202 and 216  the loop head; after the last email, the test of cache_updated
F_Loop(t) ==
    LET f == th[t]
        item == Head(f.emails)
    IN
    /\ f.pc = "f_loop"
    /\ IF f.emails = << >>
       THEN th' = [th EXCEPT ![t] =
                     IF f.cache_updated
                     THEN [f EXCEPT !.pc = "f_acquire_save"]
                     ELSE [f EXCEPT !.pc = "done", !.outcome = "returned"]]
       ELSE th' = [th EXCEPT ![t] =
                     [f EXCEPT !.pc = "f_was_cached",
                               !.changes = item.changes,
                               !.email = IF item.email = << >> /\ Truthy(f.default_user)
                                         THEN f.default_user ELSE item.email]]
    /\ UNCHANGED <<AUTHOR_CACHE, cache, CACHE_LOCK, cacheFile, diskWrites, searchReqs, results, active, calls, lookups, raises>>
    /\ UNCHANGED outsideCache

\* utils.py:203-204  was_cached = email in cache (no lock is held), then the call
F_WasCached(t) ==
    LET f == th[t] IN
    /\ f.pc = "f_was_cached"
    /\ th' = [th EXCEPT ![t] = [f EXCEPT !.pc = "u_acquire_check",
                                         !.was_cached = (f.email \in DOMAIN cache)]]
    /\ UNCHANGED <<AUTHOR_CACHE, cache, CACHE_LOCK, cacheFile, diskWrites, searchReqs, results, active, calls, lookups, raises>>
    /\ UNCHANGED outsideCache

\* utils.py:206-213  the info entry, and cache_updated (email in cache: no lock is held)
F_AfterCall(t) ==
    LET f == th[t]
        rec == [key |-> PyOr(f.username, f.email),
                email |-> f.email,
                url |-> IF Truthy(f.username) THEN <<"https://github.com/">> \o f.username
                        ELSE <<"https://github.com/ultralytics/ultralytics">>,
                changes |-> f.changes,
                avatar |-> PyOr(f.avatar, DEFAULT_AVATAR)]
    IN
    /\ f.pc = "f_after_call"
    /\ th' = [th EXCEPT ![t] =
                [f EXCEPT !.pc = "f_loop",
                          !.info = InfoPut(f.info, rec),
                          !.emails = Tail(f.emails),
                          !.cache_updated = f.cache_updated
                                            \/ (f.email \in DOMAIN cache /\ ~f.was_cached)]]
    /\ UNCHANGED <<AUTHOR_CACHE, cache, CACHE_LOCK, cacheFile, diskWrites, searchReqs, results, active, calls, lookups, raises>>
    /\ UNCHANGED outsideCache

\* utils.py:217  with _CACHE_LOCK:
F_AcquireSave(t) ==
    /\ th[t].pc = "f_acquire_save"
    /\ CACHE_LOCK = 0
    /\ CACHE_LOCK' = t
    /\ th' = [th EXCEPT ![t].pc = "f_save"]
    /\ UNCHANGED <<AUTHOR_CACHE, cache, cacheFile, diskWrites, searchReqs, results, active, calls, lookups, raises>>
    /\ UNCHANGED outsideCache

\* utils.py:218-222  yaml.safe_dump(cache, f): the whole file is overwritten
F_Save(t) ==
    /\ th[t].pc = "f_save"
    /\ cacheFile' = [is_file |-> TRUE, data |-> cache]
    /\ diskWrites' = diskWrites + 1
    /\ CACHE_LOCK' = 0
    /\ th' = [th EXCEPT ![t] = [@ EXCEPT !.pc = "done", !.outcome = "returned", !.wrote = TRUE]]
    /\ UNCHANGED <<AUTHOR_CACHE, cache, searchReqs, results, active, calls, lookups, raises>>
    /\ UNCHANGED outsideCache

\* A caller that resolves one email against the shared cache (utils.py:87-89).
StartResolve(t) ==
    /\ t \in active
    /\ th[t].pc \in {"idle", "done"}
    /\ calls < MaxCalls
    /\ AUTHOR_CACHE = "dict"
    /\ lookups < MaxLookups
    /\ calls' = calls + 1
    /\ lookups' = lookups + 1
    /\ \E e \in Emails :
         th' = [th EXCEPT ![t] = [IdleThread EXCEPT !.pc = "u_acquire_check",
                                                   !.op = "direct", !.email = e]]
    /\ UNCHANGED <<AUTHOR_CACHE, cache, CACHE_LOCK, cacheFile, diskWrites, searchReqs, results, active, raises>>
    /\ UNCHANGED outsideCache


\* ------------------------------------------------ the resolver as a system
\* The cache file before the run: absent, empty, or holding an earlier
\* negative resolution.
InitialCacheFiles ==
    {[is_file |-> FALSE, data |-> EmptyDict],
     [is_file |-> TRUE, data |-> EmptyDict],
     [is_file |-> TRUE, data |-> DictPut(EmptyDict, ZedEmail, NegativeEntry)]}

CacheInit ==
    /\ cacheFile \in InitialCacheFiles
    /\ AUTHOR_CACHE \in {"None", "dict"}
    /\ cache = IF AUTHOR_CACHE = "dict" THEN cacheFile.data ELSE EmptyDict
    /\ CACHE_LOCK = 0
    /\ diskWrites = 0
    /\ searchReqs = [e \in Emails |-> 0]
    /\ results = [e \in Emails |-> {}]
    /\ th = [t \in Threads |-> IdleThread]
    /\ active \in {1..k : k \in 1..NumThreads}
    /\ calls = 0
    /\ lookups = 0
    /\ raises = 0

CacheNext ==
    \E t \in Threads :
        \/ StartResolve(t)
        \/ StartFromFile(t)
        \/ U_AcquireCheck(t)
        \/ U_Check(t)
        \/ U_AcquirePut(t)
        \/ U_Put(t)
        \/ U_Request(t)
        \/ U_AcquireNeg(t)
        \/ U_NegPut(t)
        \/ F_AcquireLoad(t)
        \/ F_Load(t)
        \/ F_Loop(t)
        \/ F_WasCached(t)
        \/ F_AfterCall(t)
        \/ F_AcquireSave(t)
        \/ F_Save(t)

\* ==================================================== plugin/postprocess.py
MaxFiles == 3
MaxWorkers == 2

Files == 1..MaxFiles
Workers == 1..MaxWorkers

\* What can go wrong with one file (postprocess.py:80-134):
\*   read_decode   read_text raises UnicodeDecodeError or FileNotFoundError
\*   read_denied   read_text raises another OSError (PermissionError, IsADirectoryError)
\*   process       parsing, the URL/title computation or process_html raises
\*   write_denied  write_text raises PermissionError / OSError when it opens the file
\*   write_failed  write_text raises OSError after it has opened (and so emptied)
\*                 the file: the disk is full, an I/O error
Faults == {"none", "read_decode", "read_denied", "process", "write_denied", "write_failed"}

\* postprocess.py:282, 291, 325, 332
Mode(c) == IF c.worker_count = 1 THEN "sequential"
           ELSE IF c.use_processes THEN "process" ELSE "thread"

\* postprocess.py:297
NeedsGit(c, index) == (c.add_authors \/ c.add_json_ld) /\ index # {}

\* process_html_file with the except clause of the write missing: the OSError of
\* write_text leaves the function.
ProcessHtmlFileResult_WriteNotCaught(fault) ==
    CASE fault = "read_decode" -> "False"
      [] fault = "read_denied" -> "raise"
      [] fault = "process" -> "raise"
      [] fault = "write_denied" -> "raise"
      [] fault = "write_failed" -> "raise"
      [] OTHER -> "True"

\* process_html_file (postprocess.py:80-134): "True", "False", or "raise" when an
\* exception leaves the function.
ProcessHtmlFileResult(fault) ==
    CASE fault = "read_decode" -> "False"      \* 80-85: caught, return False
      [] fault = "read_denied" -> "raise"      \* 81: not in the except clause of 82
      [] fault = "process" -> "raise"          \* 87-125: outside any try
      [] fault = "write_denied" -> "False"     \* 128-134: caught, return False
      [] fault = "write_failed" -> "False"     \* 128-134: caught, return False
      [] OTHER -> "True"                       \* 129-130

\* postprocess.py:129  html_file.write_text(processed_html) opens the file for
\* writing, which empties it, and then writes: a write that fails after the
\* open leaves the file cut short.
ContentAfter(fault, old) ==
    IF fault = "none" THEN "processed"
    ELSE IF fault = "write_failed" THEN "truncated"
    ELSE old

\* process_html_file -> process_html (postprocess.py:108-125) passes no
\* default_author, so process_html (processor.py:216, 386-388) calls
\* get_git_info(src_path, add_authors, None), which with a working git calls
\* get_github_usernames_from_file(file_path, default_user=None) (processor.py:52-53).
ReachesAuthorLookup(c, index, f, fault) ==
    /\ fault \notin {"read_decode", "read_denied", "process"}
    /\ f \in index                       \* src_path (postprocess.py:105)
    /\ c.git_ok                          \* processor.py:38-50, 59
    /\ c.add_authors                     \* processor.py:52

\* The emails get_github_usernames_from_file iterates over in that call
\* (utils.py:175-182 with emails=None, default_user=None).
WorkerEmails == LET emails == << >> default_user == None
                IN  IF emails = << >> /\ Truthy(default_user)
                    THEN <<[email |-> default_user, changes |-> 1]>> ELSE emails

\* utils.py:187-193: the file is opened when this process has not bound
\* _AUTHOR_CACHE yet and the file exists.
OpensCacheFile(global, file) == global = "None" /\ file.is_file

\* What the bulk pre-resolution leaves behind in the coordinating process: the
\* cache is loaded there, and the cache file is rewritten when entries were added.
ResolveAllAuthorsEffect(file, rewritten) ==
    [global |-> "dict",
     file |-> IF rewritten THEN [is_file |-> TRUE, data |-> file.data] ELSE file]

\* One run's arguments and environment.
Configs ==
    {c \in [site_exists : BOOLEAN, worker_count : 1..MaxWorkers, use_processes : BOOLEAN,
            add_authors : BOOLEAN, add_json_ld : BOOLEAN, docs_exist : BOOLEAN,
            start_method : {"fork", "spawn"}, git_ok : BOOLEAN] :
        /\ (Mode(c) # "process" => c.start_method = "fork")
        /\ (c.worker_count = 1 => c.use_processes)
        /\ (~c.add_authors => c.git_ok)
        /\ (~c.site_exists => c.worker_count = 1 /\ c.add_authors /\ c.add_json_ld
                               /\ c.docs_exist /\ c.git_ok)}

Disks == UNION {[1..n -> Faults] : n \in 0..MaxFiles}

SiteInit ==
    /\ cfg \in Configs
    /\ disk \in Disks
    /\ (~cfg.site_exists => disk = << >>)
    /\ s_pc = "start"
    /\ html_files = << >>
    /\ md_index = {}
    /\ fut = [f \in Files |-> "pending"]
    /\ content = [f \in Files |-> "original"]
    /\ attempts = [f \in Files |-> 0]
    /\ processed = 0
    /\ summary = << >>
    /\ log = << >>
    /\ wCache = [w \in Workers |-> "None"]
    /\ workerOpens = 0
    /\ workerLookups = 0
    /\ workerWrites = 0

\* postprocess.py:270-275
S_CheckSiteDir ==
    /\ s_pc = "start"
    /\ s_pc' = IF cfg.site_exists THEN "enumerate" ELSE "returned"
    /\ UNCHANGED <<cfg, disk, html_files, md_index, fut, content, attempts, processed, summary,
                   log, wCache, workerOpens, workerLookups, workerWrites, AUTHOR_CACHE, cacheFile>>
    /\ UNCHANGED outsideSite

\* postprocess.py:277-280
S_Enumerate ==
    /\ s_pc = "enumerate"
    /\ html_files' = [i \in 1..Len(disk) |-> i]
    /\ s_pc' = IF Len(disk) = 0 THEN "returned" ELSE "index"
    /\ log' = Append(log, "enumerate")
    /\ UNCHANGED <<cfg, disk, md_index, fut, content, attempts, processed, summary,
                   wCache, workerOpens, workerLookups, workerWrites, AUTHOR_CACHE, cacheFile>>
    /\ UNCHANGED outsideSite

\* The index step going straight to the dispatch, without the git map and the
\* author pre-resolution.
S_BuildIndex_SkipGit ==
    LET index == IF cfg.docs_exist THEN 1..Len(disk) ELSE {} IN
    /\ s_pc = "index"
    /\ md_index' = index
    /\ log' = Append(log, "md_index")
    /\ s_pc' = "dispatch"
    /\ UNCHANGED <<cfg, disk, html_files, fut, content, attempts, processed, summary,
                   wCache, workerOpens, workerLookups, workerWrites, AUTHOR_CACHE, cacheFile>>
    /\ UNCHANGED outsideSite

\* postprocess.py:282-297
S_BuildIndex ==
    LET index == IF cfg.docs_exist THEN 1..Len(disk) ELSE {} IN
    /\ s_pc = "index"
    /\ md_index' = index
    /\ log' = Append(log, "md_index")
    /\ s_pc' = IF NeedsGit(cfg, index) THEN "git_map" ELSE "dispatch"
    /\ UNCHANGED <<cfg, disk, html_files, fut, content, attempts, processed, summary,
                   wCache, workerOpens, workerLookups, workerWrites, AUTHOR_CACHE, cacheFile>>
    /\ UNCHANGED outsideSite

\* postprocess.py:298
S_BuildGitMap ==
    /\ s_pc = "git_map"
    /\ log' = Append(log, "git_map")
    /\ s_pc' = "resolve_authors"
    /\ UNCHANGED <<cfg, disk, html_files, md_index, fut, content, attempts, processed, summary,
                   wCache, workerOpens, workerLookups, workerWrites, AUTHOR_CACHE, cacheFile>>
    /\ UNCHANGED outsideSite

\* postprocess.py:299-301
S_ResolveAllAuthors ==
    /\ s_pc = "resolve_authors"
    /\ log' = Append(log, "resolve_authors")
    /\ \E rewritten \in BOOLEAN :
         LET after == ResolveAllAuthorsEffect(cacheFile, rewritten)
         IN  AUTHOR_CACHE' = after.global /\ cacheFile' = after.file
    /\ s_pc' = "dispatch"
    /\ UNCHANGED <<cfg, disk, html_files, md_index, fut, content, attempts, processed, summary,
                   wCache, workerOpens, workerLookups, workerWrites>>
    /\ UNCHANGED outsideSite

\* postprocess.py:325 and 331-347: the sequential loop is entered, or the pool is
\* created and every file submitted. A forked worker process inherits the
\* coordinator's module globals, a spawned one imports the module afresh
\* (utils.py:19).
S_Dispatch ==
    /\ s_pc = "dispatch"
    /\ log' = Append(log, "dispatch")
    /\ IF Mode(cfg) = "sequential"
       THEN /\ s_pc' = "seq_loop"
            /\ UNCHANGED <<fut, wCache>>
       ELSE /\ s_pc' = "collect"
            /\ fut' = [f \in Files |-> IF f <= Len(html_files) THEN "submitted" ELSE fut[f]]
            /\ wCache' = [w \in Workers |->
                            IF cfg.start_method = "fork" THEN AUTHOR_CACHE ELSE "None"]
    /\ UNCHANGED <<cfg, disk, html_files, md_index, content, attempts, processed, summary,
                   workerOpens, workerLookups, workerWrites, AUTHOR_CACHE, cacheFile>>
    /\ UNCHANGED outsideSite

\* postprocess.py:326-330: the next file, in the coordinator itself; an
\* exception of process_html_file leaves the loop and postprocess_site.
S_SeqProcess ==
    LET todo == {i \in 1..Len(html_files) : fut[html_files[i]] = "pending"} IN
    /\ s_pc = "seq_loop"
    /\ IF todo = {}
       THEN /\ s_pc' = "summary"
            /\ UNCHANGED <<fut, content, attempts, processed, AUTHOR_CACHE>>
       ELSE LET f == html_files[CHOOSE i \in todo : \A j \in todo : i <= j]
                r == ProcessHtmlFileResult(disk[f])
            IN  /\ attempts' = [attempts EXCEPT ![f] = @ + 1]
                /\ content' = [content EXCEPT ![f] = ContentAfter(disk[f], @)]
                /\ fut' = [fut EXCEPT ![f] = r]
                /\ processed' = IF r = "True" THEN processed + 1 ELSE processed
                /\ s_pc' = IF r = "raise" THEN "crashed" ELSE "seq_loop"
                /\ AUTHOR_CACHE' = IF ReachesAuthorLookup(cfg, md_index, f, disk[f])
                                   THEN "dict" ELSE AUTHOR_CACHE
    /\ UNCHANGED <<cfg, disk, html_files, md_index, summary, log, wCache,
                   workerOpens, workerLookups, workerWrites, cacheFile>>
    /\ UNCHANGED outsideSite

\* postprocess.py:30-51 (process pool) or 344 (thread pool): one submitted file
\* is processed by pool worker w; its result or exception is kept in the future.
W_RunTask(f, w) ==
    LET r == ProcessHtmlFileResult(disk[f])
        inProcess == Mode(cfg) = "process"
        global == IF inProcess THEN wCache[w] ELSE AUTHOR_CACHE
        lookup == ReachesAuthorLookup(cfg, md_index, f, disk[f])
    IN
    /\ s_pc = "collect"
    /\ f \in 1..Len(html_files)
    /\ w \in 1..cfg.worker_count
    /\ fut[f] = "submitted"
    /\ attempts' = [attempts EXCEPT ![f] = @ + 1]
    /\ content' = [content EXCEPT ![f] = ContentAfter(disk[f], @)]
    /\ fut' = [fut EXCEPT ![f] = r]
    /\ workerOpens' = IF lookup /\ OpensCacheFile(global, cacheFile)
                      THEN workerOpens + 1 ELSE workerOpens
    /\ workerLookups' = IF lookup THEN workerLookups + Len(WorkerEmails) ELSE workerLookups
    /\ wCache' = IF lookup /\ inProcess THEN [wCache EXCEPT ![w] = "dict"] ELSE wCache
    /\ AUTHOR_CACHE' = IF lookup /\ ~inProcess THEN "dict" ELSE AUTHOR_CACHE
    /\ UNCHANGED <<cfg, disk, s_pc, html_files, md_index, processed, summary, log,
                   workerWrites, cacheFile>>
    /\ UNCHANGED outsideSite

\* postprocess.py:349-360: the next completed future; an exception of the task
\* is caught here and counts as a failure.
S_Collect(f) ==
    /\ s_pc = "collect"
    /\ fut[f] \in {"True", "False", "raise"}
    /\ processed' = IF fut[f] = "True" THEN processed + 1 ELSE processed
    /\ fut' = [fut EXCEPT ![f] = "collected"]
    /\ UNCHANGED <<cfg, disk, s_pc, html_files, md_index, content, attempts, summary, log, wCache,
                   workerOpens, workerLookups, workerWrites, AUTHOR_CACHE, cacheFile>>
    /\ UNCHANGED outsideSite

\* postprocess.py:346, 362-365: the pool is left once every future is consumed
S_PoolDone ==
    /\ s_pc = "collect"
    /\ \A f \in 1..Len(html_files) : fut[f] = "collected"
    /\ s_pc' = "summary"
    /\ UNCHANGED <<cfg, disk, html_files, md_index, fut, content, attempts, processed, summary,
                   log, wCache, workerOpens, workerLookups, workerWrites, AUTHOR_CACHE, cacheFile>>
    /\ UNCHANGED outsideSite

\* postprocess.py:365
S_Summary ==
    /\ s_pc = "summary"
    /\ summary' = <<processed, Len(html_files)>>
    /\ s_pc' = "done"
    /\ UNCHANGED <<cfg, disk, html_files, md_index, fut, content, attempts, processed,
                   log, wCache, workerOpens, workerLookups, workerWrites, AUTHOR_CACHE, cacheFile>>
    /\ UNCHANGED outsideSite

SiteNext ==
    \/ S_CheckSiteDir
    \/ S_Enumerate
    \/ S_BuildIndex
    \/ S_BuildGitMap
    \/ S_ResolveAllAuthors
    \/ S_Dispatch
    \/ S_SeqProcess
    \/ \E f \in Files, w \in Workers : W_RunTask(f, w)
    \/ \E f \in Files : S_Collect(f)
    \/ S_PoolDone
    \/ S_Summary

\* ===================================================== plugin/processor.py
\* A text or attribute value: its tokens and, for free text, the number n of
\* its characters between the first and the last non-blank one and the number
\* ws of blanks around them (only the length of a paragraph matters to the code).
V(tokens) == [s |-> tokens, n |-> 0, ws |-> 0]
Text(id, len, ws) == [s |-> <<id>>, n |-> len, ws |-> ws]
Empty == V(<< >>)
NoValue == V(None)

StartsWith(s, pre) == Len(s) >= Len(pre) /\ SubSeq(s, 1, Len(pre)) = pre
Min(a, b) == IF a <= b THEN a ELSE b

\* processor.py:243  first_paragraph.text.strip()[:500]
StripText(text) == [text EXCEPT !.ws = 0]
Truncate(text, k) == IF text.n + text.ws <= k THEN text
                     ELSE [text EXCEPT !.n = Min(text.n, k), !.ws = k - Min(text.n, k)]
PyLen(text) == text.n + text.ws

\* ------------------------------------------------------------ the document
\* head: the elements of <head>, each [key, val] with key the selector that
\*       finds it and val its content / href attribute (or text).
\* pre, inner, post: the elements of <body> in document order: before, inside
\*       and after the content container article.md-content__inner.
HeadEl(key, val) == [key |-> key, val |-> val]
Node(tag, val) == [tag |-> tag, val |-> val]

BodyOf(doc) == doc.pre \o doc.inner \o doc.post

\* soup.find: the index of the first match in document order, 0 for None
FirstKey(head, key) ==
    LET idx == {i \in 1..Len(head) : head[i].key = key}
    IN  IF idx = {} THEN 0 ELSE CHOOSE i \in idx : \A j \in idx : i <= j
FirstTag(nodes, tag) ==
    LET idx == {i \in 1..Len(nodes) : nodes[i].tag = tag}
    IN  IF idx = {} THEN 0 ELSE CHOOSE i \in idx : \A j \in idx : i <= j

CountKey(head, key) == Cardinality({i \in 1..Len(head) : head[i].key = key})
CountTag(nodes, tag) == Cardinality({i \in 1..Len(nodes) : nodes[i].tag = tag})

\* if tag := soup.find(...): tag["content"] = value  else: soup.head.append(new_tag)
Upsert(head, key, val) ==
    LET i == FirstKey(head, key)
    IN  IF i # 0 THEN [head EXCEPT ![i].val = val] ELSE Append(head, HeadEl(key, val))

\* if not soup.find(...): soup.head.append(new_tag)
AppendIfMissing(head, key, val) ==
    IF FirstKey(head, key) # 0 THEN head ELSE Append(head, HeadEl(key, val))

InsertAt(nodes, i, frag) == SubSeq(nodes, 1, i - 1) \o frag \o SubSeq(nodes, i, Len(nodes))

\* insert_content that looks for the content container first
insert_content_ContainerFirst(doc, frag) ==
    IF doc.hasInner THEN [doc EXCEPT !.inner = @ \o frag] ELSE doc

\* processor.py:99-104  before the comments header, else at the end of the
\* content container, else nowhere
insert_content(doc, frag) ==
    LET a == FirstTag(doc.pre, "h2#__comments")
        b == FirstTag(doc.inner, "h2#__comments")
        c == FirstTag(doc.post, "h2#__comments")
    IN  IF a # 0 THEN [doc EXCEPT !.pre = InsertAt(@, a, frag)]
        ELSE IF b # 0 THEN [doc EXCEPT !.inner = InsertAt(@, b, frag)]
        ELSE IF c # 0 THEN [doc EXCEPT !.post = InsertAt(@, c, frag)]
        ELSE IF doc.hasInner THEN [doc EXCEPT !.inner = @ \o frag]
        ELSE doc

\* --------------------------------------------------------------- git facts
DEFAULT_CREATION_DATE == V(<<"today - 365 days">>)
DEFAULT_MODIFIED_DATE == V(<<"today - 40 days">>)
RealCreationDate == V(<<"2023-01-01 00:00:00 +0000">>)
RealModifiedDate == V(<<"2024-06-01 00:00:00 +0000">>)

\* What the git invocations of get_git_info meet (processor.py:39-44):
\*   no_binary   there is no git executable: subprocess raises FileNotFoundError
\*   not_a_repo  the path is outside a work tree: git exits non-zero, check_output
\*               raises CalledProcessError
\*   no_history  git answers, git log prints nothing for the file
\*   history     git log prints the dates of the file
GitOutcomes == {"no_binary", "not_a_repo", "no_history", "history"}
GitException(git) ==
    CASE git = "no_binary" -> "FileNotFoundError"
      [] git = "not_a_repo" -> "CalledProcessError"
      [] OTHER -> "none"

\* a list sorted by increasing change count and then reversed: equal counts
\* come out in the opposite of their original order
Reverse(seq) == [i \in 1..Len(seq) |-> seq[Len(seq) + 1 - i]]
RECURSIVE InsertAscending(_, _)
InsertAscending(sorted, x) ==
    IF sorted = << >> THEN <<x>>
    ELSE IF Head(sorted).changes <= x.changes
         THEN <<Head(sorted)>> \o InsertAscending(Tail(sorted), x)
         ELSE <<x>> \o sorted
RECURSIVE SortAscending(_, _)
SortAscending(done, rest) ==
    IF rest = << >> THEN done
    ELSE SortAscending(InsertAscending(done, Head(rest)), Tail(rest))
SortByChanges_AscendingReversed(done, rest) == Reverse(SortAscending(done, rest))

\* processor.py:54-58  sorted(..., key=lambda x: x[2], reverse=True): the
\* entries by decreasing change count, equal counts in their original order
RECURSIVE InsertByChanges(_, _)
InsertByChanges(sorted, x) ==
    IF sorted = << >> THEN <<x>>
    ELSE IF Head(sorted).changes >= x.changes
         THEN <<Head(sorted)>> \o InsertByChanges(Tail(sorted), x)
         ELSE <<x>> \o sorted
RECURSIVE SortByChanges(_, _)
SortByChanges(done, rest) ==
    IF rest = << >> THEN done
    ELSE SortByChanges(InsertByChanges(done, Head(rest)), Tail(rest))

DefaultGitInfo(raised) ==
    [creation_date |-> DEFAULT_CREATION_DATE, last_modified_date |-> DEFAULT_MODIFIED_DATE,
     has_authors |-> FALSE, authors |-> << >>, raised |-> raised]

\* get_git_info whose except clause names CalledProcessError alone
get_git_info_MissingBinaryNotCaught(git, add_authors, authors_info) ==
    IF GitException(git) # "none"
    THEN DefaultGitInfo(GitException(git) \notin {"CalledProcessError"})
    ELSE [creation_date |-> IF git = "history" THEN RealCreationDate ELSE DEFAULT_CREATION_DATE,
          last_modified_date |-> IF git = "history" THEN RealModifiedDate
                                 ELSE DEFAULT_MODIFIED_DATE,
          has_authors |-> add_authors,
          authors |-> IF add_authors THEN SortByChanges(<< >>, authors_info) ELSE << >>,
          raised |-> FALSE]

\* processor.py:30-62  get_git_info. authors_info is what
\* get_github_usernames_from_file(file_path, default_user=default_author)
\* returns, as the list of its (name, url, changes, avatar) in the order of the
\* dict; has_authors tells that the record has the key "authors"; raised tells
\* that an exception of the git invocation left the function.
get_git_info(git, add_authors, authors_info) ==
    IF GitException(git) # "none"
    THEN DefaultGitInfo(GitException(git) \notin {"CalledProcessError", "FileNotFoundError"})
    ELSE [creation_date |-> IF git = "history" THEN RealCreationDate ELSE DEFAULT_CREATION_DATE,
          last_modified_date |-> IF git = "history" THEN RealModifiedDate
                                 ELSE DEFAULT_MODIFIED_DATE,
          has_authors |-> add_authors,
          authors |-> IF add_authors THEN SortByChanges(<< >>, authors_info) ELSE << >>,
          raised |-> FALSE]

\* processor.py:417-418  the avatar of an author badge: {avatar}?s=96 (or &s=96)
BadgeSrc(avatar) ==
    V(avatar \o (IF \E i \in 1..Len(avatar) : avatar[i] = "?" THEN <<"&">> ELSE <<"?">>) \o <<"s=96">>)

RECURSIVE Badges(_)
Badges(authors) ==
    IF authors = << >> THEN << >>
    ELSE <<Node("a.author-link", V(Head(authors).url)), Node("img", BadgeSrc(Head(authors).avatar))>>
         \o Badges(Tail(authors))

\* processor.py:401-422  the footer fragment, in document order
GitFooter(git_info) ==
    <<Node("br", Empty), Node("br", Empty), Node("div.git-info", Empty)>>
    \o Badges(git_info.authors)

\* processor.py:464-473  (the share links themselves are not modelled)
ShareButtons ==
    <<Node("div.share-buttons", Empty), Node("br", Empty)>>

\* ------------------------------------------------------------ process_html
FontAwesomeHref == V(<<"https://cdnjs.cloudflare.com/ajax/libs/", "font-awesome", "/6.4.2/css/all.min.css">>)
Contains(s, tok) == \E i \in 1..Len(s) : s[i] = tok

\* soup.find("link", rel="stylesheet", href=re.compile("font-awesome"))
FirstFontAwesome(head) ==
    LET idx == {i \in 1..Len(head) : head[i].key = "link[rel=stylesheet]"
                                      /\ Contains(head[i].val.s, "font-awesome")}
    IN  IF idx = {} THEN 0 ELSE CHOOSE i \in idx : \A j \in idx : i <= j

\* utils.py:79-84  get_youtube_video_ids
RECURSIVE get_youtube_video_ids(_)
get_youtube_video_ids(nodes) ==
    IF nodes = << >> THEN << >>
    ELSE LET x == Head(nodes)
             m == IF x.tag = "iframe" /\ Len(x.val.s) >= 2
                  THEN {i \in 1..(Len(x.val.s) - 1) : x.val.s[i] = "youtube.com/embed/"} ELSE {}
         IN  (IF m = {} THEN << >> ELSE <<x.val.s[(CHOOSE i \in m : \A j \in m : i <= j) + 1]>>)
             \o get_youtube_video_ids(Tail(nodes))

\* processor.py:238-246  meta["description"], NoValue when the key is not set
MetaDescription(doc, a) ==
    LET scope == IF doc.hasInner THEN doc.inner ELSE BodyOf(doc)
        p == FirstTag(scope, "p")
        desc == Truncate(StripText(scope[p].val), 500)
    IN  IF a.add_desc /\ p # 0 /\ PyLen(desc) >= 10 THEN desc ELSE NoValue

\* processor.py:248-258  meta["image"], NoValue when the key is not set
MetaImage(doc, a) ==
    LET body == BodyOf(doc)
        i == FirstTag(body, "img")
        src == body[i].val.s
        ids == get_youtube_video_ids(body)
    IN  IF ~a.add_image THEN NoValue
        ELSE IF i # 0
             THEN IF src # << >>
                     /\ (\/ StartsWith(src, <<"http://">>) \/ StartsWith(src, <<"https://">>)
                         \/ StartsWith(src, <<"/">>)
                         \/ ~(StartsWith(src, <<"javascript:">>) \/ StartsWith(src, <<"data:">>)))
                  THEN V(src) ELSE NoValue
        ELSE IF ids # << >> THEN V(<<"https://img.youtube.com/vi/", ids[1], "/maxresdefault.jpg">>)
        ELSE IF a.default_image # NoValue /\ a.default_image # Empty THEN a.default_image
        ELSE NoValue

\* processor.py:261-321  the elements of <head>
RECURSIVE UpsertAll(_, _)
UpsertAll(head, pairs) ==
    IF pairs = << >> THEN head
    ELSE UpsertAll(Upsert(head, pairs[1][1], pairs[1][2]), Tail(pairs))

HeadTags(doc, a) ==
    LET description == MetaDescription(doc, a)
        image == MetaImage(doc, a)
        descOrEmpty == IF description = NoValue THEN Empty ELSE description
        h1 == AppendIfMissing(doc.head, "name=title", a.title)
        h2 == IF a.add_share_buttons /\ FirstFontAwesome(h1) = 0
              THEN Append(h1, HeadEl("link[rel=stylesheet]", FontAwesomeHref)) ELSE h1
        h3 == IF a.add_keywords /\ a.keywords # NoValue /\ a.keywords # Empty
              THEN Upsert(h2, "name=keywords", a.keywords) ELSE h2
        h4 == IF a.add_desc /\ description # NoValue
              THEN Upsert(h3, "name=description", description) ELSE h3
        h5 == UpsertAll(h4, << <<"property=og:type", V(<<"website">>)>>,
                               <<"property=og:url", a.page_url>>,
                               <<"property=og:title", a.title>>,
                               <<"property=og:description", descOrEmpty>> >>)
        h6 == IF a.add_image /\ image # NoValue THEN Upsert(h5, "property=og:image", image) ELSE h5
        h7 == UpsertAll(h6, << <<"property=twitter:card", V(<<"summary_large_image">>)>>,
                               <<"property=twitter:url", a.page_url>>,
                               <<"property=twitter:title", a.title>>,
                               <<"property=twitter:description", descOrEmpty>> >>)
    IN  IF a.add_image /\ image # NoValue
        THEN AppendIfMissing(h7, "property=twitter:image", image) ELSE h7

\* processor.py:324-378  the Copy-for-LLM button, placed right after the edit button
InsertAfterTag(nodes, tag, frag) ==
    LET i == FirstTag(nodes, tag) IN IF i = 0 THEN nodes ELSE InsertAt(nodes, i + 1, frag)

CopyButton(doc, a) ==
    LET body == BodyOf(doc)
        btn == <<Node("a[onclick=copyMarkdownForLLM]", Empty)>>
        d1 == IF FirstTag(doc.pre, "a[title=Edit this page]") # 0
              THEN [doc EXCEPT !.pre = InsertAfterTag(@, "a[title=Edit this page]", btn)]
              ELSE IF FirstTag(doc.inner, "a[title=Edit this page]") # 0
              THEN [doc EXCEPT !.inner = InsertAfterTag(@, "a[title=Edit this page]", btn)]
              ELSE [doc EXCEPT !.post = InsertAfterTag(@, "a[title=Edit this page]", btn)]
    IN  IF /\ a.add_copy_llm
           /\ ~Contains(a.page_url.s, "/reference/")
           /\ FirstTag(body, "a[title=Edit this page]") # 0
           /\ FirstTag(body, "a[onclick=copyMarkdownForLLM]") = 0
        THEN IF FirstTag(body, "script[copyMarkdownForLLM]") = 0
             THEN [d1 EXCEPT !.post = Append(@, Node("script[copyMarkdownForLLM]", Empty))]
             ELSE d1
        ELSE doc

\* processor.py:381-388
GitInfoOf(a) ==
    IF a.src_path
    THEN get_git_info(a.git, a.add_authors, a.resolved)
    ELSE DefaultGitInfo(FALSE)

\* processor.py:391-395
has_real_git_data(git_info) ==
    \/ git_info.creation_date # DEFAULT_CREATION_DATE
    \/ git_info.last_modified_date # DEFAULT_MODIFIED_DATE
    \/ git_info.has_authors

\* processor.py:387-429
GitInfoFooter(doc, a) ==
    LET git_info == GitInfoOf(a)
        d1 == IF a.add_css /\ FirstKey(doc.head, "style[git-info]") = 0
              THEN [doc EXCEPT !.head = Append(@, HeadEl("style[git-info]", Empty))] ELSE doc
    IN  IF a.src_path /\ a.add_authors /\ has_real_git_data(git_info)
        THEN insert_content(d1, GitFooter(git_info))
        ELSE doc

\* the JSON-LD script added without looking for an existing one
JsonLd_NoGuard(doc, a, image) ==
    IF a.add_json_ld
    THEN [doc EXCEPT !.head = Append(@, HeadEl("script[type=application/ld+json]", a.title))]
    ELSE doc

\* processor.py:432-456  (image is meta["image"] of this pass)
JsonLd(doc, a, image) ==
    IF a.add_json_ld /\ FirstKey(doc.head, "script[type=application/ld+json]") = 0
    THEN [doc EXCEPT !.head = Append(@, HeadEl("script[type=application/ld+json]",
                                               V(a.title.s \o GitInfoOf(a).creation_date.s
                                                 \o GitInfoOf(a).last_modified_date.s
                                                 \o (IF image = NoValue THEN << >> ELSE image.s))))]
    ELSE doc

\* processor.py:459-474
ShareButtonsBlock(doc, a) ==
    IF a.add_share_buttons /\ FirstTag(BodyOf(doc), "div.share-buttons") = 0
    THEN insert_content(doc, ShareButtons)
    ELSE doc

\* process_html without the test of processor.py:231-232: the tags are added to
\* a document that has no <head>.
process_html_NoHeadCheck(doc, a) ==
    LET image == MetaImage(doc, a)
        d1 == [doc EXCEPT !.head = HeadTags(doc, a)]
        d2 == CopyButton(d1, a)
        d3 == GitInfoFooter(d2, a)
        d4 == JsonLd(d3, a, image)
    IN  ShareButtonsBlock(d4, a)

\* processor.py:210-476
process_html(doc, a) ==
    IF ~doc.hasHead THEN doc
    ELSE LET image == MetaImage(doc, a)
             d1 == [doc EXCEPT !.head = HeadTags(doc, a)]
             d2 == CopyButton(d1, a)
             d3 == GitInfoFooter(d2, a)
             d4 == JsonLd(d3, a, image)
         IN  ShareButtonsBlock(d4, a)

\* ------------------------------------------------------- pages and arguments
MaxPasses == 2

Old == V(<<"old">>)
UpsertKeys == <<"name=title", "name=keywords", "name=description",
                "property=og:type", "property=og:url", "property=og:title",
                "property=og:description", "property=og:image",
                "property=twitter:card", "property=twitter:url", "property=twitter:title",
                "property=twitter:description", "property=twitter:image">>

\* heads of input pages: nothing yet; every selector already present with a
\* stale value; only some of them present
StaleHead == [i \in 1..Len(UpsertKeys) |-> HeadEl(UpsertKeys[i], Old)]
             \o <<HeadEl("link[rel=stylesheet]", V(<<"https://old.cdn/", "font-awesome", "/5.css">>))>>
PartialHead == <<HeadEl("link[rel=stylesheet]", V(<<"/assets/main.css">>)),
                 HeadEl("name=description", Old), HeadEl("property=twitter:image", Old)>>
Heads == {<< >>, StaleHead, PartialHead}

\* first paragraphs: lengths around the two thresholds of the description
Paragraphs == {Text("para", n, 0) : n \in {10, 11, 499, 500, 501}}
              \cup {Text("para", 9, 2), Text("para", 0, 3)}
ParagraphNodes == {<< >>} \cup {<<Node("p", t)>> : t \in Paragraphs}

\* what the page shows: nothing, an image, an inline (data:) image, a video
MediaNodes == {<< >>,
               <<Node("img", V(<<"/", "assets/a.png">>))>>,
               <<Node("img", V(<<"data:", "image/png;base64">>))>>,
               <<Node("iframe", V(<<"https://www.", "youtube.com/embed/", "abc123">>))>>}

EditButtons == {<< >>, <<Node("a[title=Edit this page]", Empty)>>}
Layouts == {"bare", "container", "comments"}

\* A page of the Material theme: navigation, then the content container with
\* the edit button, the text and the media, then optionally the comments header.
Page(hasHead, head, layout, edit, para, media) ==
    [hasHead |-> hasHead,
     head |-> head,
     hasInner |-> layout # "bare",
     pre |-> <<Node("nav", Empty)>>,
     inner |-> IF layout = "bare" THEN << >>
               ELSE edit \o <<Node("h1", Empty)>> \o para \o media
                    \o (IF layout = "comments" THEN <<Node("h2#__comments", Empty)>> ELSE << >>),
     post |-> IF layout = "bare" THEN edit \o <<Node("h1", Empty)>> \o para \o media ELSE << >>]

\* utils.py:175-213 with emails = None: the default author alone, with one change
ResolvedDefault(default_author) ==
    IF default_author = None THEN << >>
    ELSE LET username == GitHubLogin(default_author)
         IN  <<[name |-> PyOr(username, default_author),
                url |-> IF Truthy(username) THEN <<"https://github.com/">> \o username
                        ELSE <<"https://github.com/ultralytics/ultralytics">>,
                changes |-> 1,
                avatar |-> IF Truthy(username) THEN Redirected(GitHubAvatarUrl(username))
                           ELSE DEFAULT_AVATAR]>>

GitCases ==
    {[src_path |-> FALSE, git |-> "not_a_repo", default_author |-> None]}
    \cup {[src_path |-> TRUE, git |-> g, default_author |-> d] :
              g \in GitOutcomes, d \in {None, BobEmail}}

FlagNames == {"add_desc", "add_image", "add_keywords", "add_share_buttons",
              "add_authors", "add_json_ld", "add_css", "add_copy_llm"}
\* every flag on, every flag off, each flag switched off alone, each on alone
FlagSets == {[f \in FlagNames |-> TRUE], [f \in FlagNames |-> FALSE]}
            \cup {[f \in FlagNames |-> f # x] : x \in FlagNames}
            \cup {[f \in FlagNames |-> f = x] : x \in FlagNames}

GuideUrl == V(<<"https://docs.example.com", "/guide/">>)
PageUrls == {GuideUrl, V(<<"https://docs.example.com", "/reference/", "x/">>)}
DefaultImages == {NoValue, V(<<"/", "d.png">>)}
Keywords == {NoValue, Empty, V(<<"yolo, docs">>)}

Args(u, g, di, kw, fl) ==
    [page_url |-> u, title |-> V(<<"Guide">>),
     src_path |-> g.src_path, git |-> g.git, resolved |-> ResolvedDefault(g.default_author),
     default_image |-> di, keywords |-> kw,
     add_desc |-> fl["add_desc"], add_image |-> fl["add_image"],
     add_keywords |-> fl["add_keywords"], add_share_buttons |-> fl["add_share_buttons"],
     add_authors |-> fl["add_authors"], add_json_ld |-> fl["add_json_ld"],
     add_css |-> fl["add_css"], add_copy_llm |-> fl["add_copy_llm"]]

Arguments == {Args(u, g, di, kw, fl) : u \in PageUrls, g \in GitCases, di \in DefaultImages,
                                       kw \in Keywords, fl \in FlagSets}

\* The inputs. Each family varies the parts that meet in one region of
\* process_html and keeps the others at an ordinary value.
OrdinaryGit == [src_path |-> TRUE, git |-> "history", default_author |-> BobEmail]
OrdinaryEdit == <<Node("a[title=Edit this page]", Empty)>>
OrdinaryPara == <<Node("p", Text("para", 11, 0))>>

\* the head: existing metas, the paragraph, the media, the default image, the keywords
HeadInputs ==
    \E h \in Heads, p \in ParagraphNodes, m \in MediaNodes, di \in DefaultImages,
       kw \in Keywords, fl \in FlagSets :
        /\ page = Page(TRUE, h, "container", OrdinaryEdit, p, m)
        /\ args = Args(GuideUrl, OrdinaryGit, di, kw, fl)
\* the fragments: the layout, the git facts, the media, the edit button, the URL
FragmentInputs ==
    \E l \in Layouts, g \in GitCases, m \in MediaNodes, e \in EditButtons, u \in PageUrls,
       fl \in FlagSets :
        /\ page = Page(TRUE, << >>, l, e, OrdinaryPara, m)
        /\ args = Args(u, g, V(<<"/", "d.png">>), NoValue, fl)
\* a document without <head>, with every combination of arguments
HeadlessInputs ==
    /\ page = Page(FALSE, << >>, "container", OrdinaryEdit, OrdinaryPara, << >>)
    /\ args \in Arguments

HtmlInit ==
    /\ HeadInputs \/ FragmentInputs \/ HeadlessInputs
    /\ html = page
    /\ outputs = << >>

\* html = process_html(html, page_url, title, ...): the first pass on the page,
\* every later one on the output of the pass before
\* (the document is kept as its element tree: str(soup) of one pass parsed by
\* the next gives back the same elements in the same order; pages have a <body>)
H_ProcessHtml ==
    /\ Len(outputs) < MaxPasses
    /\ html' = process_html(html, args)
    /\ outputs' = Append(outputs, html')
    /\ UNCHANGED <<page, args>>
    /\ UNCHANGED outsideHtml

HtmlNext == H_ProcessHtml

\* ------------------------------------------------ get_git_info on its own
MaxAuthors == 3
AuthorPool == <<"ann", "bob", "cyd", "dan">>
Author(i, n) == [name |-> <<AuthorPool[i]>>, url |-> <<"https://github.com/", AuthorPool[i]>>,
                 changes |-> n, avatar |-> DEFAULT_AVATAR]
\* the dicts get_github_usernames_from_file can return, in insertion order:
\* up to MaxAuthors entries under distinct keys
AuthorsInfos ==
    UNION {{[i \in 1..n |-> Author(who[i], cnt[i])] :
               who \in {w \in [1..n -> 1..Len(AuthorPool)] : \A i, j \in 1..n : w[i] = w[j] => i = j},
               cnt \in [1..n -> 1..MaxChanges]} : n \in 0..MaxAuthors}

GitInit ==
    /\ g_args \in [git : GitOutcomes, add_authors : BOOLEAN, authors_info : AuthorsInfos]
    /\ g_ret = DefaultGitInfo(FALSE)
    /\ g_returned = FALSE

\* git_info = get_git_info(file_path, add_authors, default_author)
G_GetGitInfo ==
    /\ ~g_returned
    /\ g_ret' = get_git_info(g_args.git, g_args.add_authors, g_args.authors_info)
    /\ g_returned' = TRUE
    /\ UNCHANGED g_args
    /\ UNCHANGED outsideGit

GitNext == G_GetGitInfo

GitAtRest ==
    /\ g_args = [git |-> "history", add_authors |-> FALSE, authors_info |-> << >>]
    /\ g_ret = DefaultGitInfo(FALSE)
    /\ g_returned = TRUE

\* -------------------------------------- calculate_time_difference on its own
MaxDays == 800
HoursOfDay == {0, 23}

Amount(n, unit) == [n |-> n, unit |-> unit, plural |-> n # 1]

\* the same function with the first test written days <= 30
calculate_time_difference_ThirtyIsDays(a) ==
    LET days == (a.days * 24 + a.hours) \div 24
    IN  IF days <= 30 THEN Amount(days, "day")
        ELSE IF days < 365 THEN Amount(days \div 30, "month")
        ELSE Amount(days \div 365, "year")

\* utils.py:23-51  the difference string of calculate_time_difference, as the
\* number, the noun and whether the noun takes its s
calculate_time_difference(a) ==
    LET days == (a.days * 24 + a.hours) \div 24      \* 41-42: (now - date).days
    IN  IF days < 30 THEN Amount(days, "day")
        ELSE IF days < 365 THEN Amount(days \div 30, "month")
        ELSE Amount(days \div 365, "year")

TimeInit ==
    /\ age \in [days : 0..MaxDays, hours : HoursOfDay]
    /\ difference = Amount(0, "day")
    /\ t_returned = FALSE

T_CalculateTimeDifference ==
    /\ ~t_returned
    /\ difference' = calculate_time_difference(age)
    /\ t_returned' = TRUE
    /\ UNCHANGED age
    /\ UNCHANGED outsideTime

TimeNext == T_CalculateTimeDifference

TimeAtRest ==
    /\ age = [days |-> 0, hours |-> 0]
    /\ difference = Amount(0, "day")
    /\ t_returned = TRUE

\* ----------------------------------------------------- parse_faq on its own
MaxSiblings == 5

El(tag, text) == [tag |-> tag, text |-> text]
FaqHeading == El("h2", <<"FAQ">>)
\* what can follow the FAQ heading at its level
SiblingKinds == {El("h1", <<"Next chapter">>), El("h2", <<"See also">>),
                 El("h3", <<" ", "Q1?">>), El("h3", <<"Q2?">>),
                 El("p", <<"A1.", " ">>), El("p", <<"A2.">>), El("div", <<"note">>)}

\* processor.py:68  soup.find("h2", string="FAQ"): 0 for None
FaqSection(sibs) ==
    LET idx == {i \in 1..Len(sibs) : sibs[i] = FaqHeading}
    IN  IF idx = {} THEN 0 ELSE CHOOSE i \in idx : \A j \in idx : i <= j

\* processor.py:74-80  the answer of a question, from the sibling at j on
RECURSIVE FaqAnswer(_, _)
FaqAnswer(sibs, j) ==
    IF j > Len(sibs) \/ sibs[j].tag = "h3" \/ sibs[j].tag = "h2" THEN << >>
    ELSE (IF sibs[j].tag = "p" THEN Strip(sibs[j].text) \o <<" ">> ELSE << >>)
         \o FaqAnswer(sibs, j + 1)

\* processor.py:71-94  the outer loop, from the sibling at i on
RECURSIVE FaqScan(_, _)
FaqScan(sibs, i) ==
    IF i > Len(sibs) \/ sibs[i].tag = "h2" THEN << >>
    ELSE LET question == Strip(sibs[i].text)
             answer == FaqAnswer(sibs, i + 1)
         IN  (IF sibs[i].tag = "h3" /\ question # << >> /\ answer # << >>
              THEN <<[name |-> question, text |-> Strip(answer), at |-> i]>> ELSE << >>)
             \o FaqScan(sibs, i + 1)

\* processor.py:65-96
parse_faq(sibs) ==
    IF FaqSection(sibs) # 0 THEN FaqScan(sibs, FaqSection(sibs) + 1) ELSE << >>

FaqInit ==
    /\ \E n \in 0..MaxSiblings : \E rest \in [1..n -> SiblingKinds] :
          \E lead \in {<< >>, <<El("h2", <<"Usage">>), El("h3", <<"Q0?">>)>>} :
              \E faq \in {<< >>, <<FaqHeading>>} :
                  siblings = lead \o faq \o rest
    /\ faqs = << >>
    /\ faq_returned = FALSE

\* faqs = parse_faq(soup)
Q_ParseFaq ==
    /\ ~faq_returned
    /\ faqs' = parse_faq(siblings)
    /\ faq_returned' = TRUE
    /\ UNCHANGED siblings
    /\ UNCHANGED outsideFaq

FaqNext == Q_ParseFaq

FaqAtRest ==
    /\ siblings = << >>
    /\ faqs = << >>
    /\ faq_returned = TRUE

\* ------------------------------------------- MetaPlugin.insert_content (main.py)
CommentsHeader == Node("h2#__comments", Empty)

\* What on_post_page and the docstring hand to insert_content: a parsed
\* fragment (main.py:456, 474: BeautifulSoup(div, "html.parser")) or one
\* element made with soup.new_tag (main.py:198-200).
Contents == {[kind |-> "soup", nodes |-> ShareButtons],
             [kind |-> "soup", nodes |-> <<Node("div.git-info", Empty)>>],
             [kind |-> "tag", nodes |-> <<Node("div#new", Empty)>>]}

\* PageElement.extract(): the element leaves the place it is in
Extract(doc, el) ==
    [doc EXCEPT !.pre = SelectSeq(@, LAMBDA n : n # el),
                !.inner = SelectSeq(@, LAMBDA n : n # el),
                !.post = SelectSeq(@, LAMBDA n : n # el)]

\* main.py:203-204  comments_header.insert_before(content_to_insert)
InsertBeforeComments(doc, frag) ==
    LET a == FirstTag(doc.pre, "h2#__comments")
        b == FirstTag(doc.inner, "h2#__comments")
        c == FirstTag(doc.post, "h2#__comments")
    IN  IF a # 0 THEN [doc EXCEPT !.pre = InsertAt(@, a, frag)]
        ELSE IF b # 0 THEN [doc EXCEPT !.inner = InsertAt(@, b, frag)]
        ELSE IF c # 0 THEN [doc EXCEPT !.post = InsertAt(@, c, frag)]
        ELSE doc

\* main.py:206-207  md_typeset.append(content_to_insert), after the first
\* statement has run or not.  An element that already has a place is moved;
\* a parsed fragment gave its children away when it was inserted and has none
\* left to append.
AppendToContainer(doc, content_to_insert, inserted) ==
    IF ~doc.hasInner THEN doc
    ELSE IF content_to_insert.kind = "tag"
         THEN [Extract(doc, content_to_insert.nodes[1]) EXCEPT !.inner = @ \o content_to_insert.nodes]
         ELSE IF inserted THEN doc ELSE [doc EXCEPT !.inner = @ \o content_to_insert.nodes]

\* main.py:180-207
MetaPlugin_insert_content(doc, content_to_insert) ==
    LET found == FirstTag(BodyOf(doc), "h2#__comments") # 0
    IN  AppendToContainer(InsertBeforeComments(doc, content_to_insert.nodes), content_to_insert, found)

PluginLayouts == {"bare", "container", "comments", "comments_below", "comments_alone"}

\* A page as the theme renders it, with the comments header inside the content
\* container, below it, or on a page that has no container.
PluginPage(layout, edit, para, media) ==
    IF layout \in Layouts THEN Page(TRUE, << >>, layout, edit, para, media)
    ELSE IF layout = "comments_below"
         THEN [Page(TRUE, << >>, "container", edit, para, media) EXCEPT !.post = <<CommentsHeader>>]
         ELSE [Page(TRUE, << >>, "bare", edit, para, media) EXCEPT !.post = @ \o <<CommentsHeader>>]

PluginInit ==
    /\ \E layout \in PluginLayouts : \E edit \in EditButtons :
          \E para \in {<< >>, OrdinaryPara} : \E media \in MediaNodes :
              p_doc = PluginPage(layout, edit, para, media)
    /\ p_content \in Contents
    /\ p_pc = "call"

\* MetaPlugin.insert_content(soup, content_to_insert)
M_InsertContent ==
    /\ p_pc = "call"
    /\ p_doc' = MetaPlugin_insert_content(p_doc, p_content)
    /\ p_pc' = "done"
    /\ UNCHANGED p_content
    /\ UNCHANGED outsidePlugin

PluginNext == M_InsertContent

PluginAtRest ==
    /\ p_doc = Page(FALSE, << >>, "bare", << >>, << >>, << >>)
    /\ p_content = [kind |-> "soup", nodes |-> << >>]
    /\ p_pc = "done"

\* ======================================================== the specifications
vars == <<cacheVars, siteVars, htmlVars, gitVars, timeVars, faqVars, pluginVars>>

\* The resolver's variables while the orchestrator runs: only the coordinator's
\* module global and the cache file take part.
ResolverAtRest ==
    /\ cacheFile \in {[is_file |-> b, data |-> EmptyDict] : b \in BOOLEAN}
    /\ AUTHOR_CACHE = "None"
    /\ cache = EmptyDict
    /\ CACHE_LOCK = 0
    /\ diskWrites = 0
    /\ searchReqs = [e \in Emails |-> 0]
    /\ results = [e \in Emails |-> {}]
    /\ th = [t \in Threads |-> IdleThread]
    /\ active = {}
    /\ calls = 0
    /\ lookups = 0
    /\ raises = 0

\* The orchestrator's variables while only the resolver runs.
SiteAtRest ==
    /\ cfg = CHOOSE c \in Configs : ~c.site_exists
    /\ disk = << >>
    /\ s_pc = "returned"
    /\ html_files = << >>
    /\ md_index = {}
    /\ fut = [f \in Files |-> "pending"]
    /\ content = [f \in Files |-> "original"]
    /\ attempts = [f \in Files |-> 0]
    /\ processed = 0
    /\ summary = << >>
    /\ log = << >>
    /\ wCache = [w \in Workers |-> "None"]
    /\ workerOpens = 0
    /\ workerLookups = 0
    /\ workerWrites = 0

\* No page is being processed while the other components run.
HtmlAtRest ==
    /\ page = Page(FALSE, << >>, "bare", << >>, << >>, << >>)
    /\ args = Args(GuideUrl, OrdinaryGit, NoValue, NoValue, [f \in FlagNames |-> FALSE])
    /\ html = page
    /\ outputs = << >>

InitCache == SiteAtRest /\ HtmlAtRest /\ GitAtRest /\ TimeAtRest /\ FaqAtRest /\ PluginAtRest /\ CacheInit
NextCache == CacheNext
SpecCache == InitCache /\ [][NextCache]_vars

InitSite == HtmlAtRest /\ GitAtRest /\ TimeAtRest /\ ResolverAtRest /\ FaqAtRest /\ PluginAtRest /\ SiteInit
NextSite == SiteNext
SpecSite == InitSite /\ [][NextSite]_vars

InitHtml == ResolverAtRest /\ ~cacheFile.is_file /\ SiteAtRest /\ GitAtRest /\ TimeAtRest /\ FaqAtRest /\ PluginAtRest /\ HtmlInit
NextHtml == HtmlNext
SpecHtml == InitHtml /\ [][NextHtml]_vars

InitGit == ResolverAtRest /\ ~cacheFile.is_file /\ SiteAtRest /\ HtmlAtRest /\ TimeAtRest /\ FaqAtRest /\ PluginAtRest /\ GitInit
NextGit == GitNext
SpecGit == InitGit /\ [][NextGit]_vars

InitTime == ResolverAtRest /\ ~cacheFile.is_file /\ SiteAtRest /\ HtmlAtRest /\ GitAtRest /\ FaqAtRest /\ PluginAtRest /\ TimeInit
NextTime == TimeNext
SpecTime == InitTime /\ [][NextTime]_vars

InitFaq == ResolverAtRest /\ ~cacheFile.is_file /\ SiteAtRest /\ HtmlAtRest /\ GitAtRest /\ TimeAtRest
           /\ PluginAtRest /\ FaqInit
NextFaq == FaqNext
SpecFaq == InitFaq /\ [][NextFaq]_vars

InitPlugin == ResolverAtRest /\ ~cacheFile.is_file /\ SiteAtRest /\ HtmlAtRest /\ GitAtRest /\ TimeAtRest
              /\ FaqAtRest /\ PluginInit
NextPlugin == PluginNext
SpecPlugin == InitPlugin /\ [][NextPlugin]_vars

\* ============================================================ the claims
SingleCaller == active = {1}

\* C2: two calls of get_github_username_from_email with the same cache and
\* email return identical (username, avatar) pairs and issue at most one
\* user-search request in total (a sole caller whose calls all return).
C2_TwoCallsAgree ==
    (SingleCaller /\ raises = 0) =>
        \A e \in Emails : Cardinality(results[e]) <= 1 /\ searchReqs[e] <= 1

\* C5: once an email has an entry in the author cache, no later step removes
\* or changes that entry, whatever the interleaving of the threads.
C5_EntriesPermanent ==
    [][\A e \in DOMAIN cache : e \in DOMAIN cache' /\ cache'[e] = cache[e]]_vars

\* C6: a negative entry is put into the cache only by a lookup whose
\* user-search request was answered successfully with an empty result set.
C6_NegativeOnlyWhenEmpty ==
    [][\A e \in Emails :
          ( /\ AUTHOR_CACHE = "dict"
            /\ e \in DOMAIN cache' /\ cache'[e] = NegativeEntry
            /\ (e \notin DOMAIN cache \/ cache[e] # NegativeEntry) )
          => \E t \in Threads : /\ th[t].pc = "u_neg_put"
                                /\ th[t].email = e
                                /\ th[t].response = "empty"]_vars

\* The positions whose statement reads or writes the shared cache dictionary.
CacheAccessPcs == {"u_check", "u_put", "u_neg_put", "f_load", "f_was_cached", "f_after_call", "f_save"}

\* C7: a thread about to read or write the shared cache holds _CACHE_LOCK.
C7_AccessUnderLock ==
    \A t \in Threads : th[t].pc \in CacheAccessPcs => CACHE_LOCK = t

\* C10: a finished call of get_github_usernames_from_file has overwritten the
\* cache file if and only if the cache gained an entry during that call.
C10_WriteIffAdded ==
    \A t \in Threads :
        (SingleCaller /\ th[t].op = "file" /\ th[t].pc = "done")
        => (th[t].wrote <=> (DOMAIN cache) \ th[t].domAtEntry # {})


\* ---------------------------------------------------------- postprocess_site
N == Len(disk)

\* Exactly one of the enumerated files cannot be written, the others are sound.
OneUnwritable(f) ==
    /\ f \in 1..N
    /\ disk[f] = "write_denied"
    /\ \A g \in 1..N : g # f => disk[g] = "none"

\* C3: with exactly one unwritable file among the N enumerated, the run is not
\* aborted, and when the summary is printed every other file has been attempted
\* and written and the summary reads processed = N-1 out of N.
C3_OneUnwritable ==
    \A f \in Files :
        OneUnwritable(f) =>
            /\ s_pc # "crashed"
            /\ (s_pc = "done" =>
                  /\ summary = <<N - 1, N>>
                  /\ \A g \in 1..N : g # f => attempts[g] = 1 /\ content[g] = "processed")

C3_Witness ==
    /\ s_pc = "done"
    /\ N = MaxFiles
    /\ OneUnwritable(1)
    /\ summary = <<N - 1, N>>

\* C4: no exception raised while handling one file leaves the per-file
\* boundary: in every dispatch mode the run is not aborted, and once it is over
\* every file was attempted and the summary was printed.
C4_NoExceptionEscapes ==
    /\ s_pc # "crashed"
    /\ (s_pc = "done" => summary # << >> /\ \A f \in 1..N : attempts[f] = 1)

\* C8: when the first per-file task is submitted, the coordinator has completed,
\* in this order, the enumeration, the markdown index and (when add_authors or
\* add_json_ld is set and the index is non-empty) the git map and the bulk
\* author pre-resolution, the latter exactly once.
StepsBeforeDispatch ==
    IF NeedsGit(cfg, md_index)
    THEN <<"enumerate", "md_index", "git_map", "resolve_authors">>
    ELSE <<"enumerate", "md_index">>

Count(seq, x) == Cardinality({i \in 1..Len(seq) : seq[i] = x})

C8_StrictOrder ==
    /\ Count(log, "resolve_authors") <= 1
    /\ ((\E f \in Files : fut[f] # "pending") \/ s_pc \in {"seq_loop", "collect", "summary", "done"})
         => log = StepsBeforeDispatch \o <<"dispatch">>

C8_Witness ==
    /\ Mode(cfg) = "process"
    /\ NeedsGit(cfg, md_index)
    /\ \E f \in Files : fut[f] = "submitted"
    /\ Count(log, "resolve_authors") = 1

\* C9: while the files are processed, no pool worker opens, loads or rewrites
\* the author cache file, and none issues a remote identity lookup.
C9_WorkersLeaveCacheAlone ==
    workerOpens = 0 /\ workerWrites = 0 /\ workerLookups = 0

\* ---------------------------------------------------------------- SpecHtml
ValueOf(head, key) == head[FirstKey(head, key)].val
FontAwesomeLinks(head) ==
    {i \in 1..Len(head) : head[i].key = "link[rel=stylesheet]" /\ Contains(head[i].val.s, "font-awesome")}

\* C1: for a page with a <head>, the second pass (process_html applied to its
\* own output with the same arguments) leaves every upserted head element that
\* the first pass produced (meta name=title/description/keywords, the og: and
\* twitter: metas, the font-awesome link) present exactly once and with the
\* value it had after the first pass.
ProducedByFirstPass(key) ==
    /\ CountKey(outputs[1].head, key) >= 1
    /\ CountKey(page.head, key) >= 1 => ValueOf(page.head, key) # ValueOf(outputs[1].head, key)

C1_SecondPassKeepsHead ==
    (page.hasHead /\ Len(outputs) >= 2) =>
        /\ \A i \in 1..Len(UpsertKeys) :
              ProducedByFirstPass(UpsertKeys[i]) =>
                  /\ CountKey(outputs[2].head, UpsertKeys[i]) = 1
                  /\ ValueOf(outputs[2].head, UpsertKeys[i]) = ValueOf(outputs[1].head, UpsertKeys[i])
        /\ FontAwesomeLinks(outputs[1].head) # {} =>
              /\ Cardinality(FontAwesomeLinks(outputs[2].head)) = 1
              /\ outputs[2].head[FirstFontAwesome(outputs[2].head)].val
                     = outputs[1].head[FirstFontAwesome(outputs[1].head)].val

\* The value process_html wants the element found by a selector to carry on
\* this page, NoValue when it wants none (processor.py:261-321).
Desired(key, doc, a) ==
    LET description == MetaDescription(doc, a)
        image == MetaImage(doc, a)
        descOrEmpty == IF description = NoValue THEN Empty ELSE description
    IN  CASE key = "name=title" -> a.title
          [] key = "name=keywords" ->
                 IF a.add_keywords /\ a.keywords # NoValue /\ a.keywords # Empty
                 THEN a.keywords ELSE NoValue
          [] key = "name=description" -> description
          [] key = "property=og:type" -> V(<<"website">>)
          [] key = "property=og:url" -> a.page_url
          [] key = "property=og:title" -> a.title
          [] key = "property=og:description" -> descOrEmpty
          [] key = "property=og:image" -> image
          [] key = "property=twitter:card" -> V(<<"summary_large_image">>)
          [] key = "property=twitter:url" -> a.page_url
          [] key = "property=twitter:title" -> a.title
          [] key = "property=twitter:description" -> descOrEmpty
          [] key = "property=twitter:image" -> image
          [] OTHER -> NoValue

\* C11: after a pass over a page with a <head>, every selector of the fixed set
\* that has a desired value is carried by exactly as many elements as before
\* when one existed (updated in place) and by exactly one element when none
\* existed, and its element carries the desired value; meta name=title and
\* meta property=twitter:image included.
C11_EverySelectorUpserted ==
    (page.hasHead /\ Len(outputs) >= 1) =>
        \A i \in 1..Len(UpsertKeys) :
            LET key == UpsertKeys[i] IN
            Desired(key, page, args) # NoValue =>
                /\ CountKey(outputs[1].head, key) = (IF CountKey(page.head, key) = 0 THEN 1
                                                     ELSE CountKey(page.head, key))
                /\ ValueOf(outputs[1].head, key) = Desired(key, page, args)

\* processor.py:239-241  the text of the first paragraph, NoValue without one
FirstParagraphText(doc) ==
    LET scope == IF doc.hasInner THEN doc.inner ELSE BodyOf(doc)
        p == FirstTag(scope, "p")
    IN  IF p = 0 THEN NoValue ELSE scope[p].val

SameElement(key) ==
    /\ CountKey(outputs[1].head, key) = CountKey(page.head, key)
    /\ CountKey(page.head, key) >= 1 => ValueOf(outputs[1].head, key) = ValueOf(page.head, key)

\* C12: with add_desc on, the trimmed text of the first paragraph becomes the
\* description if and only if its length L satisfies 10 < L < 500; for L = 10,
\* L = 500 or longer nothing is injected, neither whole nor truncated.
C12_DescriptionBounds ==
    (/\ page.hasHead /\ Len(outputs) >= 1 /\ args.add_desc
     /\ FirstParagraphText(page) # NoValue) =>
        LET trimmed == StripText(FirstParagraphText(page))
        IN  IF 10 < PyLen(trimmed) /\ PyLen(trimmed) < 500
            THEN /\ CountKey(outputs[1].head, "name=description") >= 1
                 /\ ValueOf(outputs[1].head, "name=description") = trimmed
            ELSE SameElement("name=description")

\* C13: whenever both dates of the git record of the page are the placeholder
\* defaults, a pass inserts no git footer, whatever the flags and the default
\* author (and none without add_authors).
C13_NoFooterWithoutRealData ==
    (/\ page.hasHead /\ Len(outputs) >= 1
     /\ \/ ~args.add_authors
        \/ /\ GitInfoOf(args).creation_date = DEFAULT_CREATION_DATE
           /\ GitInfoOf(args).last_modified_date = DEFAULT_MODIFIED_DATE) =>
        CountTag(BodyOf(outputs[1]), "div.git-info") = 0

\* ---------------------------------------------------------------- SpecSite
\* the files whose processing has been attempted without success
FailedFiles == {f \in 1..N : attempts[f] >= 1 /\ ProcessHtmlFileResult(disk[f]) # "True"}

\* C14: a page whose processing failed (process_html_file returned False or an
\* exception was raised while processing it) keeps its original content on disk.
C14_FailedPageUntouched ==
    \A f \in FailedFiles : content[f] = "original"

\* What a run leaves behind, as decided by the files alone:
\* the content of each file, and the number of files processed with success
ExpectedContent(f) == ContentAfter(disk[f], "original")
ExpectedProcessed == Cardinality({f \in 1..N : ProcessHtmlFileResult(disk[f]) = "True"})
RunOver == s_pc \in {"done", "crashed"}

\* C15: for the same files and configuration the final content of every file
\* and the processed count are the same in every dispatch mode and for every
\* order of completion: they are the ones the files alone decide.
C15_ModeIndependent ==
    RunOver =>
        /\ \A f \in 1..N : content[f] = ExpectedContent(f)
        /\ processed = ExpectedProcessed

\* ---------------------------------------------------------------- SpecHtml
\* C16: a document without <head> is returned unchanged by every pass, for
\* every combination of flags and arguments.
C16_HeadlessUnchanged ==
    ~page.hasHead => /\ html = page
                     /\ \A i \in 1..Len(outputs) : outputs[i] = page

C16_Witness ==
    /\ ~page.hasHead
    /\ Len(outputs) >= 1
    /\ args.src_path /\ args.git = "history" /\ args.resolved # << >>
    /\ args.add_desc /\ args.add_image /\ args.add_keywords /\ args.add_share_buttons
    /\ args.add_authors /\ args.add_json_ld /\ args.add_css /\ args.add_copy_llm

\* ---------------------------------------------------------------- SpecCache
\* C17: a network error or timeout of a remote request made for an identity
\* lookup is treated as "not found": no call ends by raising.
C17_LookupNeverRaises ==
    \A t \in Threads : th[t].outcome # "raised"

\* ----------------------------------------------------------------- SpecGit
\* C18: when the git binary is absent or the path is not inside a repository,
\* get_git_info lets no exception out and returns the two placeholder dates
\* and no authors entry.
C18_GitFailureContained ==
    (g_returned /\ g_args.git \in {"no_binary", "not_a_repo"}) =>
        /\ ~g_ret.raised
        /\ g_ret.creation_date = DEFAULT_CREATION_DATE
        /\ g_ret.last_modified_date = DEFAULT_MODIFIED_DATE
        /\ ~g_ret.has_authors

C18_Witness ==
    /\ g_returned /\ g_args.git = "no_binary" /\ g_args.add_authors
    /\ g_args.authors_info # << >>
    /\ ~g_ret.raised

PositionIn(seq, x) == CHOOSE i \in 1..Len(seq) : seq[i] = x

\* C19: the authors of the record are the entries that
\* get_github_usernames_from_file produced, by non-increasing change count,
\* entries of equal count in the order in which they were produced.
C19_AuthorsSortedStable ==
    (g_returned /\ g_ret.has_authors) =>
        LET in == g_args.authors_info
            out == g_ret.authors
        IN  /\ Len(out) = Len(in)
            /\ \A i \in 1..Len(in) : \E j \in 1..Len(out) : out[j] = in[i]
            /\ \A i, j \in 1..Len(out) :
                  i < j => /\ out[i].changes >= out[j].changes
                           /\ out[i].changes = out[j].changes
                                  => PositionIn(in, out[i]) < PositionIn(in, out[j])

C19_Witness ==
    /\ g_returned /\ g_ret.has_authors
    /\ Len(g_args.authors_info) = 3
    /\ g_args.authors_info[1].changes = 1
    /\ g_args.authors_info[2].changes = 2
    /\ g_args.authors_info[3].changes = 1
    /\ g_ret.authors = <<g_args.authors_info[2], g_args.authors_info[1], g_args.authors_info[3]>>

\* ---------------------------------------------------------------- SpecTime
\* C20: for a date d whole days before now, the difference is "d day(s)" when
\* d < 30, "(d div 30) month(s)" when 30 <= d < 365 and "(d div 365) year(s)"
\* when d >= 365, the noun in the singular exactly when the number is 1;
\* 3 gives "3 days", 45 "1 month", 400 "1 year".
C20_TimeDifference ==
    t_returned =>
        LET d == age.days IN
        /\ d < 30 => difference.n = d /\ difference.unit = "day"
        /\ (30 <= d /\ d < 365) => difference.n = d \div 30 /\ difference.unit = "month"
        /\ d >= 365 => difference.n = d \div 365 /\ difference.unit = "year"
        /\ difference.plural <=> difference.n # 1
        /\ d = 3 => difference = [n |-> 3, unit |-> "day", plural |-> TRUE]
        /\ d = 45 => difference = [n |-> 1, unit |-> "month", plural |-> FALSE]
        /\ d = 400 => difference = [n |-> 1, unit |-> "year", plural |-> FALSE]

C20_Witness ==
    /\ t_returned /\ age.days = 30 /\ age.hours = 23
    /\ difference = [n |-> 1, unit |-> "month", plural |-> FALSE]

\* ---------------------------------------------------------------- SpecHtml
\* C23: after any number of successive passes the document holds at most one
\* JSON-LD script and at most one share-buttons block.
C23_AtMostOneJsonLdAndShare ==
    /\ CountKey(html.head, "script[type=application/ld+json]") <= 1
    /\ CountTag(BodyOf(html), "div.share-buttons") <= 1

C23_Witness ==
    /\ Len(outputs) >= 2
    /\ CountKey(html.head, "script[type=application/ld+json]") = 1
    /\ CountTag(BodyOf(html), "div.share-buttons") = 1

Probe == <<Node("probe", Empty)>>

\* C24: insert_content puts a fragment immediately before the comments header
\* and nowhere else when there is one; otherwise at the end of the content
\* container when there is one; otherwise it leaves the document as it is.
C24_InsertRule ==
    LET d == insert_content(html, Probe)
        body == BodyOf(html)
        k == FirstTag(body, "h2#__comments")
    IN  IF k # 0 THEN /\ BodyOf(d) = InsertAt(body, k, Probe)
                      /\ d.head = html.head
        ELSE IF html.hasInner THEN d = [html EXCEPT !.inner = @ \o Probe]
        ELSE d = html

\* a pass has put the share buttons right before the comments header
C24_Witness ==
    /\ Len(outputs) >= 1
    /\ FirstTag(BodyOf(page), "div.share-buttons") = 0
    /\ LET body == BodyOf(html)
           k == FirstTag(body, "h2#__comments")
       IN  /\ k > 2
           /\ body[k - 2].tag = "div.share-buttons"
           /\ body[k - 1].tag = "br"

\* C27: for a page whose source file has real git history, with add_authors
\* on, the second pass adds no further git footer: the document has exactly
\* one after it, as after the first.
C27_OneFooterAfterSecondPass ==
    (/\ page.hasHead /\ Len(outputs) >= 2
     /\ args.src_path /\ args.git = "history" /\ args.add_authors
     /\ CountTag(BodyOf(outputs[1]), "div.git-info") = 1) =>
        CountTag(BodyOf(outputs[2]), "div.git-info") = 1

\* C30: when a pass extracts no description, the description-bearing elements
\* that the page already has keep their values: meta name=description,
\* meta property=og:description, meta property=twitter:description.
C30_DescriptionsKept ==
    (page.hasHead /\ Len(outputs) >= 1 /\ MetaDescription(page, args) = NoValue) =>
        \A key \in {"name=description", "property=og:description", "property=twitter:description"} :
            CountKey(page.head, key) >= 1 => SameElement(key)

\* ---------------------------------------------------------------- SpecCache
\* C26: when several threads resolve the same uncached email through the
\* shared cache, at most one remote user-search request is issued for it
\* (as long as no request fails).
C26_OneRequestPerEmail ==
    raises = 0 => \A e \in Emails : searchReqs[e] <= 1

RECURSIVE SumChanges(_)
SumChanges(info) == IF info = << >> THEN 0 ELSE Head(info).changes + SumChanges(Tail(info))

\* C29: get_github_usernames_from_file loses no contribution: every email it
\* has resolved adds its change count to the total of the result, also when
\* its username is already a key of the result.
C29_NoContributionLost ==
    [][\A t \in Threads :
          (th[t].pc = "f_after_call" /\ th'[t].pc = "f_loop") =>
              SumChanges(th'[t].info) = SumChanges(th[t].info) + th[t].changes]_vars

\* ---------------------------------------------------------------- SpecSite
\* C28: in every run and every dispatch mode each enumerated file is processed
\* exactly once, and the final processed count is the number of files whose
\* processing returned success, between 0 and the total.
C28_EachFileOnce ==
    /\ \A f \in Files : attempts[f] <= 1
    /\ RunOver => /\ \A f \in 1..N : attempts[f] = 1
                  /\ processed = ExpectedProcessed
                  /\ 0 <= processed /\ processed <= N

\* the end of the FAQ section: the position of the first h1 or h2 after the
\* FAQ heading, or one past the last sibling
SectionEnd(sibs) ==
    LET f == FaqSection(sibs)
        idx == {i \in (f + 1)..Len(sibs) : sibs[i].tag \in {"h1", "h2"}}
    IN  IF idx = {} THEN Len(sibs) + 1 ELSE CHOOSE i \in idx : \A j \in idx : i <= j

\* C22: parse_faq stops at the next sibling heading of the same or a higher
\* level than the FAQ heading (an h2 or an h1): every question of the result
\* lies before that heading.
C22_StopsAtSameOrHigherHeading ==
    faq_returned =>
        \A k \in 1..Len(faqs) : faqs[k].at < SectionEnd(siblings)

RECURSIVE ParagraphsBeforeNextHeading(_, _)
ParagraphsBeforeNextHeading(sibs, j) ==
    IF j > Len(sibs) \/ sibs[j].tag \in {"h1", "h2", "h3"} THEN << >>
    ELSE (IF sibs[j].tag = "p" THEN <<j>> ELSE << >>) \o ParagraphsBeforeNextHeading(sibs, j + 1)

RECURSIVE JoinedText(_, _)
JoinedText(sibs, ps) ==
    IF ps = << >> THEN << >>
    ELSE Strip(sibs[Head(ps)].text) \o (IF Len(ps) > 1 THEN <<" ">> ELSE << >>) \o JoinedText(sibs, Tail(ps))

RECURSIVE ExpectedFaqs(_, _)
ExpectedFaqs(sibs, i) ==
    IF i >= SectionEnd(sibs) THEN << >>
    ELSE LET ps == ParagraphsBeforeNextHeading(sibs, i + 1)
         IN  (IF sibs[i].tag = "h3" /\ ps # << >>
              THEN <<[name |-> Strip(sibs[i].text), text |-> JoinedText(sibs, ps), at |-> i]>>
              ELSE << >>)
             \o ExpectedFaqs(sibs, i + 1)

\* C21: parse_faq returns, in document order, exactly one entry for each
\* question heading (h3) of the FAQ section that is followed by at least one
\* paragraph before the next heading, named by the heading text and answered
\* by the text of those paragraphs; a question heading with no paragraph
\* before the next heading yields no entry.
C21_OneEntryPerAnsweredQuestion ==
    faq_returned =>
        faqs = (IF FaqSection(siblings) = 0 THEN << >>
                ELSE ExpectedFaqs(siblings, FaqSection(siblings) + 1))


\* the fragment stands immediately before the comments header of these nodes
ImmediatelyBeforeComments(nodes, frag) ==
    LET a == FirstTag(nodes, "h2#__comments")
    IN  /\ a > Len(frag)
        /\ SubSeq(nodes, a - Len(frag), a - 1) = frag

\* C25: after MetaPlugin.insert_content, when the document has an element with
\* id __comments the inserted content stands immediately before it (and
\* nowhere else); the content is at the end of .md-content__inner only when
\* there is no such element.
C25_BeforeCommentsWhenPresent ==
    (p_pc = "done" /\ p_content.nodes # << >> /\ FirstTag(BodyOf(p_doc), "h2#__comments") # 0) =>
        /\ CountTag(BodyOf(p_doc), p_content.nodes[1].tag) = 1
        /\ IF FirstTag(p_doc.pre, "h2#__comments") # 0
           THEN ImmediatelyBeforeComments(p_doc.pre, p_content.nodes)
           ELSE IF FirstTag(p_doc.inner, "h2#__comments") # 0
                THEN ImmediatelyBeforeComments(p_doc.inner, p_content.nodes)
                ELSE ImmediatelyBeforeComments(p_doc.post, p_content.nodes)

====
